---------------------------- MODULE Spec2Model ----------------------------
(***************************************************************************)
(* Anti-cheat session and score-submission protocol of the Platform Drop   *)
(* Cloud Functions (functions index: startGameSession, submitScore,        *)
(* cleanupExpiredSessions) over the two Firestore collections gameSessions *)
(* and leaderboard.                                                        *)
(*                                                                         *)
(* Every await of the source is a step boundary: a handler runs from one   *)
(* await to the next as one action, the store applies one request as one   *)
(* action, and the server clock may advance between any two actions.       *)
(* Fields no handler ever reads back (createdAt, clientIp, the entry's     *)
(* date and server timestamp) are not carried.                             *)
(***************************************************************************)
EXTENDS Integers, Sequences, FiniteSets, TLC

(***************************************************************************)
(* Bounds of the model: the session ids ever generated, the submitScore    *)
(* invocations in progress at once, and the leaderboard size beyond which  *)
(* no further submission arrives.                                          *)
(***************************************************************************)
MaxSessions == 1
MaxCalls == 2
MaxEntries == 2

(***************************************************************************)
(* Program constants.                                                      *)
(***************************************************************************)
MAX_METERS_PER_SECOND == 30
MIN_GAME_DURATION_MS == 1000
SESSION_EXPIRY_MS == 60 * 60 * 1000
MsPerSecond == 1000
AvatarMin == 1
AvatarMax == 9
InitialsLen == 3

(***************************************************************************)
(* The instants the server clock takes in the model (epoch ms).            *)
(***************************************************************************)
TimeGrid == <<1000, 1500, 2000, 3000, 9300, 3601000, 3601001>>
Times == {TimeGrid[i] : i \in 1..Len(TimeGrid)}

SessionIds == 1..MaxSessions
CallIds == 1..MaxCalls

(***************************************************************************)
(* JavaScript values of the request payload.  A number is int + 1/2 when   *)
(* half is set, so floor and the comparisons of the source are exact.      *)
(***************************************************************************)
Num(n) == [kind |-> "number", int |-> n, half |-> FALSE]
NumHalf(n) == [kind |-> "number", int |-> n, half |-> TRUE]
Undefined == [kind |-> "undefined", int |-> 0, half |-> FALSE]
NumericString == [kind |-> "string", int |-> 40, half |-> FALSE]

IsNumber(x) == x.kind = "number"
IsInteger(x) == IsNumber(x) /\ ~x.half
\* x < n and x > n for a payload number x and an integer n
LessThan(x, n) == x.int < n
GreaterThan(x, n) == x.int > n \/ (x.int = n /\ x.half)
AtMost(x, n) == ~GreaterThan(x, n)
\* rounding up where the code rounds down
Ceiling(x) == x.int + (IF x.half THEN 1 ELSE 0)

Floor(x) == x.int

(***************************************************************************)
(* Strings are sequences of characters; a payload text is a string or (a   *)
(* value JSON can also carry) an array holding one string.                 *)
(***************************************************************************)
UpperCase == {"A", "B", "C"}
LowerCase == {"a", "b", "c"}
Str(s) == [kind |-> "string", chars |-> s]
Arr(s) == [kind |-> "array", chars |-> s]
Falsy(x) == x.kind = "string" /\ x.chars = <<>>

ToUpperChar(c) ==
    CASE c = "a" -> "A"
      [] c = "b" -> "B"
      [] c = "c" -> "C"
      [] OTHER -> c
ToUpperCase(s) == [i \in 1..Len(s) |-> ToUpperChar(s[i])]


(***************************************************************************)
(* TokenCodec.  The SHA-256 of "sessionId:timestamp:SECRET_KEY" under the  *)
(* fixed secret is an injective function of (sessionId, timestamp); a      *)
(* token is the sequence of its characters, of fixed length.               *)
(***************************************************************************)
generateToken(sessionId, timestamp) == <<sessionId, ToString(timestamp)>>

\* a comparison that stops at the first character
timingSafeEqualFirstOnly(a, b) ==
    IF Len(a) # Len(b) THEN "throws"
    ELSE IF a = <<>> \/ a[1] = b[1] THEN "true" ELSE "false"

\* crypto.timingSafeEqual: a RangeError when the byte lengths differ,
\* otherwise whether the buffers are equal
timingSafeEqual(a, b) ==
    IF Len(a) # Len(b) THEN "throws"
    ELSE IF a = b THEN "true" ELSE "false"

validateToken(sessionId, timestamp, token) ==
    timingSafeEqual(token, generateToken(sessionId, timestamp))

\* /^[A-Z]{3}$/.test(initials): the argument is coerced to a string, and an
\* array of one string coerces to that string
validateInitials(initials) ==
    /\ Len(initials.chars) = InitialsLen
    /\ \A i \in 1..Len(initials.chars) : initials.chars[i] \in UpperCase

validateAvatarId(avatarId) ==
    /\ IsInteger(avatarId)
    /\ avatarId.int >= AvatarMin
    /\ avatarId.int <= AvatarMax

(***************************************************************************)
(* Math.ceil(gameDuration / 1000 * MAX_METERS_PER_SECOND) in IEEE doubles. *)
(* The quotient is rounded before the product; at the durations of         *)
(* DoubleRoundsUp the product lands just above the exact integer value     *)
(* (8300 / 1000 * 30 = 249.00000000000003) and ceil gives one more.  Among *)
(* the differences of two instants of TimeGrid this happens at 8300 only.  *)
(***************************************************************************)
CeilDiv(a, b) == (a + b - 1) \div b
ExactBound(gameDuration) ==
    CeilDiv(gameDuration * MAX_METERS_PER_SECOND, MsPerSecond)
DoubleRoundsUp == {8300}
maxPossibleScore(gameDuration) ==
    ExactBound(gameDuration) + (IF gameDuration \in DoubleRoundsUp THEN 1 ELSE 0)

(***************************************************************************)
(* Results of a call: the HttpsError code and message thrown, or success.  *)
(***************************************************************************)
HttpsError(code, message) == [code |-> code, message |-> message]
Success == [code |-> "ok", message |-> "Score submitted successfully"]
Pending == [code |-> "pending", message |-> ""]

ErrMissing == HttpsError("invalid-argument",
    "Missing required fields: sessionId, token, timestamp, avatarId, initials, distance")
ErrDistance == HttpsError("invalid-argument", "Invalid distance value")
ErrAvatar == HttpsError("invalid-argument", "Avatar ID must be between 1 and 9")
ErrInitials == HttpsError("invalid-argument", "Initials must be exactly 3 uppercase letters")
ErrNotFound == HttpsError("not-found", "Game session not found")
ErrUsed == HttpsError("already-exists", "Score already submitted for this game session")
ErrToken == HttpsError("permission-denied", "Invalid session token")
ErrExpired == HttpsError("deadline-exceeded", "Game session has expired")
ErrTooShort == HttpsError("invalid-argument", "Game duration too short")
ErrTooFar == HttpsError("invalid-argument", "Score exceeds maximum possible for game duration")
ErrInternal == HttpsError("internal", "Failed to submit score")
ErrStart == HttpsError("internal", "Failed to start game session")

(***************************************************************************)
(* State.                                                                  *)
(***************************************************************************)
VARIABLES
    now,          \* the server clock, Date.now()
    sessions,     \* gameSessions: document id -> document, or NoDoc
    leaderboard,  \* leaderboard: the documents added, in order of addition
    starts,       \* the startGameSession invocations, one per generated id
    calls,        \* the submitScore invocations in progress
    sweep,        \* the cleanupExpiredSessions invocation in progress
    probe,        \* TokenCodec alone: the arguments and outcome of one verification
    users,        \* users: document id (upper-cased username) -> document, or NoUser
    clients       \* the browser-side createUser / updateUserStats / purchaseBall calls

vars == <<now, sessions, leaderboard, starts, calls, sweep, probe, users, clients>>

DocIds == {ToString(i) : i \in SessionIds}
IndexOf(id) == CHOOSE i \in SessionIds : ToString(i) = id
GhostId == "ghost"
NoDoc == [exists |-> FALSE]
NoScore == Undefined
NoTime == -1

\* a session created already consumed
SessionDocUsed(clientTimestamp) ==
    [exists |-> TRUE, clientTimestamp |-> clientTimestamp, used |-> TRUE,
     finalScore |-> NoScore]

\* lines 71-77
SessionDoc(clientTimestamp) ==
    [exists |-> TRUE, clientTimestamp |-> clientTimestamp, used |-> FALSE,
     finalScore |-> NoScore]

\* the document a get/update of gameSessions/<id> addresses
Doc(id) == IF id \in DocIds THEN sessions[id] ELSE NoDoc

IdleStart == [pc |-> "idle", timestamp |-> NoTime, result |-> Pending]
IdleSweep == [pc |-> "idle", expiryTime |-> NoTime, batch |-> {}]


(***************************************************************************)
(* What a client can put into a submitScore request.                       *)
(***************************************************************************)
ABC == <<"A", "B", "C">>
WrongToken == <<"x", "x">>     \* as long as a real token, equal to none
ShortToken == <<"x">>          \* not as long as a real token
EmptyString == <<>>

\* the credentials startGameSession has returned so far
HandedOut == {id \in DocIds : starts[id].pc = "done"}
\* the token computed from a second reading of the clock
TokenOfNow(id) == generateToken(id, now)

TokenOf(id) == generateToken(id, starts[id].timestamp)

\* a token comes with the timestamp it was handed out with; a made-up token
\* comes with a made-up timestamp
Credentials ==
    {[token |-> TokenOf(id), timestamp |-> starts[id].timestamp] : id \in HandedOut}
    \cup {[token |-> t, timestamp |-> TimeGrid[1]] : t \in {WrongToken, ShortToken}}

SessionIdInputs == DocIds \cup {GhostId}
\* the most the rate allows within the expiry window
MaxScore == ExactBound(SESSION_EXPIRY_MS)

DistanceInputs == {Num(0), NumHalf(40), Num(60), Num(61), Num(250), Num(MaxScore + 1)}

Request(sessionId, cred, distance) ==
    [sessionId |-> sessionId, token |-> cred.token, timestamp |-> cred.timestamp,
     avatarId |-> Num(AvatarMin), initials |-> Str(ABC), distance |-> distance]

Own(id) == [token |-> TokenOf(id), timestamp |-> starts[id].timestamp]

\* the timestamp field is the client's to fill in: the same request with
\* another value in it
Restamp(p, t) == [p EXCEPT !.timestamp = t]
Stamps == Times \cup {t + 1 : t \in Times}

\* well-formed requests: a player's own (the session named with the
\* credentials handed out for it) at every distance, every other pairing of
\* a session id with credentials at one distance
WellFormed ==
    {Request(id, Own(id), d) : id \in HandedOut, d \in DistanceInputs}
    \cup {Request(id, cred, Num(60)) : id \in SessionIdInputs, cred \in Credentials}
    \cup {Restamp(Request(id, Own(id), Num(60)), starts[id].timestamp + 1) : id \in HandedOut}

\* one field of a request replaced by a value the shape validation is about
Breakages(p) ==
    {[p EXCEPT !.sessionId = ""], [p EXCEPT !.token = EmptyString],
     [p EXCEPT !.timestamp = 0]}
    \cup {[p EXCEPT !.avatarId = a] :
            a \in {Undefined, Num(AvatarMin - 1), Num(AvatarMax + 1), NumHalf(AvatarMin)}}
    \cup {[p EXCEPT !.initials = i] :
            i \in {Str(EmptyString), Str(<<"a", "b", "c">>), Str(<<"A", "B">>), Arr(ABC)}}
    \cup {[p EXCEPT !.distance = d] :
            d \in {Undefined, NumericString, Num(-1)}}

\* the requests broken: a player's own and a made-up one
Baselines ==
    {Request(id, Own(id), Num(60)) : id \in HandedOut}
    \cup {Request(GhostId, [token |-> WrongToken, timestamp |-> TimeGrid[1]], Num(61))}

InFlight == {c \in CallIds : calls[c].pc # "idle"}

\* the requests that can arrive: any of the above while no submission is in
\* progress, and a duplicate of a submission in progress beside it
Requests ==
    IF InFlight = {}
    THEN WellFormed \cup UNION {Breakages(p) : p \in Baselines}
    ELSE {calls[c].data : c \in InFlight}

NoRequest ==
    [sessionId |-> "", token |-> EmptyString, timestamp |-> 0,
     avatarId |-> Undefined, initials |-> Str(EmptyString), distance |-> Undefined]

\* priors: the answers the caller already holds for this very payload when
\* it sends it again (empty unless the request is a repeat, see SubmitRetry)
IdleCall ==
    [pc |-> "idle", data |-> NoRequest, clientTimestamp |-> NoTime,
     added |-> FALSE, result |-> Pending, priors |-> {}]

Answers(data) ==
    {calls[b].result : b \in {b \in CallIds : calls[b].pc = "done" /\ calls[b].data = data}}

NoProbe ==
    [pc |-> "off", sessionId |-> "", timestamp |-> 0, token |-> EmptyString,
     issuedFor |-> <<"", 0>>, edit |-> "none", verdict |-> "none"]

(***************************************************************************)
(* The users collection and the calls a browser makes on it.               *)
(***************************************************************************)
UsernameInputs == {ABC, <<"a", "b", "c">>}
UserIds == {ToUpperCase(u) : u \in UsernameInputs}
PasswordInputs == {"p1", "p2"}
DefaultBall == "default"
Balls == {"angel", "devil", "lunar"}

\* ballTypes.ts: the price the shop passes for a ball
Price(ball) ==
    CASE ball \in {"angel", "devil"} -> 1000
      [] ball = "lunar" -> 2000
      [] OTHER -> 0

\* what one game awards, and the balance above which no further game is played
CoinAwards == {Price("angel")}
MaxCoins == Price("lunar")

NoUser == [exists |-> FALSE]

\* createUser, newUser (totalMeters, selectedBall and createdAt left out:
\* nothing here reads them)
NewUser(password, avatarId) ==
    [exists |-> TRUE, password |-> password, totalCoins |-> 0,
     ownedBalls |-> {DefaultBall}, avatarId |-> avatarId]

IdleClient ==
    [pc |-> "idle", op |-> "none", username |-> EmptyString, password |-> "",
     ball |-> "", amount |-> 0, seen |-> NoUser, result |-> ""]

(***************************************************************************)
(* Initial state: empty collections, nothing invoked.                      *)
(***************************************************************************)
InitProtocol ==
    /\ clients = [k \in CallIds |-> IdleClient]
    /\ now = TimeGrid[1]
    /\ sessions = [id \in DocIds |-> NoDoc]
    /\ leaderboard = <<>>
    /\ starts = [id \in DocIds |-> IdleStart]
    /\ calls = [c \in CallIds |-> IdleCall]
    /\ sweep = IdleSweep

Init ==
    /\ InitProtocol
    /\ probe = NoProbe
    /\ users = [u \in UserIds |-> NoUser]

\* the clock advances to the next instant of the grid
Tick ==
    /\ \E i \in 1..(Len(TimeGrid) - 1) : now = TimeGrid[i] /\ now' = TimeGrid[i + 1]
    /\ UNCHANGED <<sessions, leaderboard, starts, calls, sweep, probe, users, clients>>

(***************************************************************************)
(* startGameSession                                                        *)
(***************************************************************************)
\* line 68: timestamp = Date.now(); the add request leaves with a fresh id
StartInvoke(id) ==
    /\ starts[id].pc = "idle"
    /\ \A j \in SessionIds : j < IndexOf(id) => starts[ToString(j)].pc # "idle"
    /\ starts' = [starts EXCEPT ![id] = [@ EXCEPT !.pc = "add", !.timestamp = now]]
    /\ UNCHANGED <<now, sessions, leaderboard, calls, sweep, probe, users, clients>>

\* lines 71-90: the document is written, the handler returns the triple
StartAdd(id) ==
    /\ starts[id].pc = "add"
    /\ sessions' = [sessions EXCEPT ![id] = SessionDoc(starts[id].timestamp)]
    /\ starts' = [starts EXCEPT ![id] = [@ EXCEPT !.pc = "done", !.result = Success]]
    /\ UNCHANGED <<now, leaderboard, calls, sweep, probe, users, clients>>

\* the error raised although the document has been written
StartAddFailsAfterWrite(id) ==
    /\ starts[id].pc = "add"
    /\ sessions' = [sessions EXCEPT ![id] = SessionDoc(starts[id].timestamp)]
    /\ starts' = [starts EXCEPT ![id] = [@ EXCEPT !.pc = "failed", !.result = ErrStart]]
    /\ UNCHANGED <<now, leaderboard, calls, sweep, probe, users, clients>>

\* lines 91-94: the write is rejected by the store
StartAddFails(id) ==
    /\ starts[id].pc = "add"
    /\ starts' = [starts EXCEPT ![id] = [@ EXCEPT !.pc = "failed", !.result = ErrStart]]
    /\ UNCHANGED <<now, sessions, leaderboard, calls, sweep, probe, users, clients>>


(***************************************************************************)
(* submitScore                                                             *)
(***************************************************************************)
Return(c, result) ==
    calls' = [calls EXCEPT ![c] = [@ EXCEPT !.pc = "done", !.result = result]]

\* lines 116-135: the checks made before the first store request
ShapeError(data) ==
    IF \/ data.sessionId = ""
       \/ data.token = EmptyString
       \/ data.timestamp = 0
       \/ data.avatarId.kind = "undefined"
       \/ Falsy(data.initials)
       \/ data.distance.kind = "undefined"
    THEN ErrMissing
    ELSE IF ~IsNumber(data.distance) \/ LessThan(data.distance, 0) THEN ErrDistance
    ELSE IF ~validateAvatarId(data.avatarId) THEN ErrAvatar
    ELSE IF ~validateInitials(data.initials) THEN ErrInitials
    ELSE Success

\* lines 112-139: the request arrives, is shape-checked, and the session get leaves
SubmitInvoke(c, data) ==
    /\ calls[c].pc = "idle"
    /\ \A b \in CallIds : b < c => calls[b].pc # "idle"
    /\ Len(leaderboard) < MaxEntries
    /\ calls' = [calls EXCEPT ![c] =
           IF ShapeError(data) = Success
           THEN [@ EXCEPT !.pc = "get", !.data = data]
           ELSE [@ EXCEPT !.pc = "done", !.data = data, !.result = ShapeError(data)]]
    /\ UNCHANGED <<now, sessions, leaderboard, starts, sweep, probe, users, clients>>

\* the token verified against the timestamp the request carries
SnapshotErrorClientStamp(data, doc) ==
    IF ~doc.exists THEN ErrNotFound
    ELSE IF doc.used THEN ErrUsed
    ELSE LET ok == validateToken(data.sessionId, data.timestamp, data.token)
         IN  IF ok = "throws" THEN ErrInternal
             ELSE IF ok = "false" THEN ErrToken
             ELSE Success

\* lines 141-160 on the snapshot the get returned
SnapshotError(data, doc) ==
    IF ~doc.exists THEN ErrNotFound
    ELSE IF doc.used THEN ErrUsed
    ELSE LET ok == validateToken(data.sessionId, doc.clientTimestamp, data.token)
         IN  IF ok = "throws" THEN ErrInternal
             ELSE IF ok = "false" THEN ErrToken
             ELSE Success

\* line 139: the store answers the get
SubmitGet(c) ==
    /\ calls[c].pc = "get"
    /\ LET doc == Doc(calls[c].data.sessionId)
           err == SnapshotError(calls[c].data, doc)
       IN  calls' = [calls EXCEPT ![c] =
               IF err = Success
               THEN [@ EXCEPT !.pc = "age", !.clientTimestamp = doc.clientTimestamp]
               ELSE [@ EXCEPT !.pc = "done", !.result = err]]
    /\ UNCHANGED <<now, sessions, leaderboard, starts, sweep, probe, users, clients>>

\* line 139 rejects (a store or transport failure), lines 210-217
SubmitGetFails(c) ==
    /\ calls[c].pc = "get"
    /\ Return(c, ErrInternal)
    /\ UNCHANGED <<now, sessions, leaderboard, starts, sweep, probe, users, clients>>

\* the window taken in seconds where the age is in milliseconds
isExpiredInSeconds(sessionAge) == sessionAge \div MsPerSecond > SESSION_EXPIRY_MS

\* line 164
isExpired(sessionAge) == sessionAge > SESSION_EXPIRY_MS

\* the floor compared the wrong way round
tooShortInverted(gameDuration) == gameDuration > MIN_GAME_DURATION_MS

\* line 173
tooShort(gameDuration) == gameDuration < MIN_GAME_DURATION_MS

\* a distance equal to the bound turned away as well
tooFarStrict(distance, gameDuration) == ~LessThan(distance, maxPossibleScore(gameDuration))

\* line 182
tooFar(distance, gameDuration) == GreaterThan(distance, maxPossibleScore(gameDuration))

\* lines 162-167: first reading of the clock
SubmitCheckAge(c) ==
    /\ calls[c].pc = "age"
    /\ LET sessionAge == now - calls[c].clientTimestamp
       IN  IF isExpired(sessionAge)
           THEN Return(c, ErrExpired)
           ELSE calls' = [calls EXCEPT ![c] = [@ EXCEPT !.pc = "score"]]
    /\ UNCHANGED <<now, sessions, leaderboard, starts, sweep, probe, users, clients>>

\* lines 169-195: second reading of the clock, the plausibility checks, and
\* the leaderboard document is built (initials.toUpperCase() is a TypeError
\* on a value that is no string) and its add leaves
SubmitCheckScore(c) ==
    /\ calls[c].pc = "score"
    /\ LET gameDuration == now - calls[c].clientTimestamp
           data == calls[c].data
       IN  IF tooShort(gameDuration) THEN Return(c, ErrTooShort)
           ELSE IF tooFar(data.distance, gameDuration) THEN Return(c, ErrTooFar)
           ELSE IF data.initials.kind # "string" THEN Return(c, ErrInternal)
           ELSE calls' = [calls EXCEPT ![c] = [@ EXCEPT !.pc = "add"]]
    /\ UNCHANGED <<now, sessions, leaderboard, starts, sweep, probe, users, clients>>

\* lines 188-195: the document added to the leaderboard
EntryOf(data) ==
    [avatarId |-> data.avatarId,
     initials |-> ToUpperCase(data.initials.chars),
     distance |-> Floor(data.distance),
     sessionId |-> data.sessionId]

Entry(c) == EntryOf(calls[c].data)

SubmitAdd(c) ==
    /\ calls[c].pc = "add"
    /\ leaderboard' = Append(leaderboard, Entry(c))
    /\ calls' = [calls EXCEPT ![c] = [@ EXCEPT !.pc = "update", !.added = TRUE]]
    /\ UNCHANGED <<now, sessions, starts, sweep, probe, users, clients>>

SubmitAddFails(c) ==
    /\ calls[c].pc = "add"
    /\ Return(c, ErrInternal)
    /\ UNCHANGED <<now, sessions, leaderboard, starts, sweep, probe, users, clients>>

\* the update held back while the session is marked used
SubmitUpdateWaits(c) ==
    /\ calls[c].pc = "update"
    /\ ~(Doc(calls[c].data.sessionId).exists /\ Doc(calls[c].data.sessionId).used)
    /\ LET id == calls[c].data.sessionId
       IN  IF Doc(id).exists
           THEN /\ sessions' = [sessions EXCEPT ![id] =
                       [@ EXCEPT !.used = TRUE,
                                 !.finalScore = calls[c].data.distance]]
                /\ calls' = [calls EXCEPT ![c] =
                       [@ EXCEPT !.pc = "done", !.result = Success]]
           ELSE /\ Return(c, ErrInternal)
                /\ UNCHANGED sessions
    /\ UNCHANGED <<now, leaderboard, starts, sweep, probe, users, clients>>

\* lines 197-209: update() of a document that is gone rejects with NOT_FOUND
SubmitUpdate(c) ==
    /\ calls[c].pc = "update"
    /\ LET id == calls[c].data.sessionId
       IN  IF Doc(id).exists
           THEN /\ sessions' = [sessions EXCEPT ![id] =
                       [@ EXCEPT !.used = TRUE,
                                 !.finalScore = calls[c].data.distance]]
                /\ calls' = [calls EXCEPT ![c] =
                       [@ EXCEPT !.pc = "done", !.result = Success]]
           ELSE /\ Return(c, ErrInternal)
                /\ UNCHANGED sessions
    /\ UNCHANGED <<now, leaderboard, starts, sweep, probe, users, clients>>

\* the response reaches the caller and the invocation is over
SubmitRespond(c) ==
    /\ calls[c].pc = "done"
    /\ calls' = [calls EXCEPT ![c] = IdleCall]
    /\ UNCHANGED <<now, sessions, leaderboard, starts, sweep, probe, users, clients>>

SubmitUpdateFails(c) ==
    /\ calls[c].pc = "update"
    /\ Return(c, ErrInternal)
    /\ UNCHANGED <<now, sessions, leaderboard, starts, sweep, probe, users, clients>>

(***************************************************************************)
(* cleanupExpiredSessions                                                  *)
(***************************************************************************)
\* line 232, and the query leaves
SweepInvoke ==
    /\ sweep.pc = "idle"
    /\ sweep' = [sweep EXCEPT !.pc = "query", !.expiryTime = now - SESSION_EXPIRY_MS]
    /\ UNCHANGED <<now, sessions, leaderboard, starts, calls, probe, users, clients>>

\* the comparison taken as <=
ExpiredInclusive(expiryTime) ==
    {id \in DocIds : sessions[id].exists /\ sessions[id].clientTimestamp <= expiryTime}

\* a session selected only a second after it has expired
ExpiredLate(expiryTime) ==
    {id \in DocIds :
        sessions[id].exists /\ sessions[id].clientTimestamp < expiryTime - MsPerSecond}

\* lines 236-238: where('clientTimestamp', '<', expiryTime)
Expired(expiryTime) ==
    {id \in DocIds : sessions[id].exists /\ sessions[id].clientTimestamp < expiryTime}

\* lines 236-254: the store answers the query; every document found goes
\* into the batch, and an empty batch is not committed
SweepQuery ==
    /\ sweep.pc = "query"
    /\ LET found == Expired(sweep.expiryTime)
       IN  sweep' = IF found = {} THEN IdleSweep
                    ELSE [sweep EXCEPT !.pc = "commit", !.batch = found]
    /\ UNCHANGED <<now, sessions, leaderboard, starts, calls, probe, users, clients>>

\* lines 249-254: the batch of deletes is applied as a whole
SweepCommit ==
    /\ sweep.pc = "commit"
    /\ sessions' = [id \in DocIds |-> IF id \in sweep.batch THEN NoDoc ELSE sessions[id]]
    /\ sweep' = IdleSweep
    /\ UNCHANGED <<now, leaderboard, starts, calls, probe, users, clients>>

\* a failing run that has deleted every session
SweepFailsAfterDeletingAll ==
    /\ sweep.pc \in {"query", "commit"}
    /\ sessions' = [id \in DocIds |-> NoDoc]
    /\ sweep' = IdleSweep
    /\ UNCHANGED <<now, leaderboard, starts, calls, probe, users, clients>>

\* lines 255-258: the query or the commit rejects; the error is logged
SweepFails ==
    /\ sweep.pc \in {"query", "commit"}
    /\ sweep' = IdleSweep
    /\ UNCHANGED <<now, sessions, leaderboard, starts, calls, probe, users, clients>>

Next ==
    \/ Tick
    \/ \E id \in DocIds : StartInvoke(id)
    \/ \E id \in DocIds : StartAdd(id)
    \/ \E id \in DocIds : StartAddFails(id)
    \/ \E c \in CallIds, data \in Requests : SubmitInvoke(c, data)
    \/ \E c \in CallIds : SubmitGet(c)
    \/ \E c \in CallIds : SubmitGetFails(c)
    \/ \E c \in CallIds : SubmitCheckAge(c)
    \/ \E c \in CallIds : SubmitCheckScore(c)
    \/ \E c \in CallIds : SubmitAdd(c)
    \/ \E c \in CallIds : SubmitAddFails(c)
    \/ \E c \in CallIds : SubmitUpdate(c)
    \/ \E c \in CallIds : SubmitUpdateFails(c)
    \/ \E c \in CallIds : SubmitRespond(c)
    \/ SweepInvoke
    \/ SweepQuery
    \/ SweepCommit
    \/ SweepFails

Spec == Init /\ [][Next]_vars


(***************************************************************************)
(* Submissions in sequence: a caller sends a request, waits for the        *)
(* answer, and sends the same request again.  The handler is the same      *)
(* (lines 112-139); the invocation remembers the answers that preceded it. *)
(***************************************************************************)
FirstAttempts ==
    IF InFlight = {}
    THEN {Request(id, Own(id), d) : id \in HandedOut, d \in DistanceInputs}
    ELSE {}

Repeats == {calls[b].data : b \in {b \in CallIds : calls[b].pc = "done"}}

SubmitRetry(c, data) ==
    /\ calls[c].pc = "idle"
    /\ \A b \in CallIds : b # c => calls[b].pc \in {"idle", "done"}
    /\ Len(leaderboard) < MaxEntries
    /\ calls' = [calls EXCEPT ![c] =
           IF ShapeError(data) = Success
           THEN [@ EXCEPT !.pc = "get", !.data = data, !.priors = Answers(data)]
           ELSE [@ EXCEPT !.pc = "done", !.data = data, !.priors = Answers(data),
                          !.result = ShapeError(data)]]
    /\ UNCHANGED <<now, sessions, leaderboard, starts, sweep, probe, users, clients>>

NextRetry ==
    \/ Tick
    \/ \E id \in DocIds : StartInvoke(id)
    \/ \E id \in DocIds : StartAdd(id)
    \/ \E id \in DocIds : StartAddFails(id)
    \/ \E c \in CallIds, data \in FirstAttempts : SubmitInvoke(c, data)
    \/ \E c \in CallIds, data \in Repeats : SubmitRetry(c, data)
    \/ \E c \in CallIds : SubmitGet(c)
    \/ \E c \in CallIds : SubmitGetFails(c)
    \/ \E c \in CallIds : SubmitCheckAge(c)
    \/ \E c \in CallIds : SubmitCheckScore(c)
    \/ \E c \in CallIds : SubmitAdd(c)
    \/ \E c \in CallIds : SubmitAddFails(c)
    \/ \E c \in CallIds : SubmitUpdate(c)
    \/ \E c \in CallIds : SubmitUpdateFails(c)
    \/ \E c \in CallIds : SubmitRespond(c)
    \/ SweepInvoke
    \/ SweepQuery
    \/ SweepCommit
    \/ SweepFails

SpecRetry == Init /\ [][NextRetry]_vars


(***************************************************************************)
(* The handlers under a scheduler that lets every invocation take its next *)
(* step and a store that answers every request (with a result or with an   *)
(* error).  Requests are a player's own and a made-up one, and duplicates  *)
(* of a submission in progress.                                            *)
(***************************************************************************)
FairRequests ==
    IF InFlight = {}
    THEN {Request(id, Own(id), Num(60)) : id \in HandedOut}
         \cup {Request(GhostId, [token |-> WrongToken, timestamp |-> TimeGrid[1]], Num(60))}
    ELSE {calls[c].data : c \in InFlight}

StartStep(id) == StartAdd(id) \/ StartAddFails(id)

SubmitStep(c) ==
    \/ SubmitGet(c)
    \/ SubmitGetFails(c)
    \/ SubmitCheckAge(c)
    \/ SubmitCheckScore(c)
    \/ SubmitAdd(c)
    \/ SubmitAddFails(c)
    \/ SubmitUpdate(c)
    \/ SubmitUpdateFails(c)

SweepStep == SweepQuery \/ SweepCommit \/ SweepFails

NextFair ==
    \/ Tick
    \/ \E id \in DocIds : StartInvoke(id)
    \/ \E id \in DocIds : StartStep(id)
    \/ \E c \in CallIds, data \in FairRequests : SubmitInvoke(c, data)
    \/ \E c \in CallIds : SubmitStep(c)
    \/ \E c \in CallIds : SubmitRespond(c)
    \/ SweepInvoke
    \/ SweepStep

Fairness ==
    /\ \A id \in DocIds : WF_vars(StartStep(id))
    /\ \A c \in CallIds : WF_vars(SubmitStep(c))
    /\ WF_vars(SweepStep)

SpecFair == Init /\ [][NextFair]_vars /\ Fairness


(***************************************************************************)
(* The leaderboard collection and everything in the repository that writes *)
(* to it: submitScore (called in sequence here), and the client-side       *)
(* addScoreToFirestore of the firestore service and of localStorage.ts,    *)
(* which add a document straight from the browser.                         *)
(***************************************************************************)
Anonymous == "Anonymous"

\* the Score objects a browser can pass: nothing validates them
ClientScores ==
    {[avatarId |-> Num(AvatarMin), initials |-> Str(ABC), distance |-> d, date |-> now] :
        d \in {Num(61), Num(250)}}

LegacyScores ==
    {[username |-> u, distance |-> Num(250), date |-> now] : u \in {"", "player"}}

\* firestore service, addScoreToFirestore: addDoc(collection(db, 'leaderboard'), ...)
AddScoreToFirestore(score) ==
    /\ Len(leaderboard) < MaxEntries
    /\ leaderboard' = Append(leaderboard,
           [avatarId |-> score.avatarId, initials |-> score.initials,
            distance |-> score.distance, date |-> score.date, timestamp |-> now])
    /\ UNCHANGED <<now, sessions, starts, calls, sweep, probe, users, clients>>

\* localStorage.ts, addScoreToFirestore: username || 'Anonymous'
LegacyAddScoreToFirestore(score) ==
    /\ Len(leaderboard) < MaxEntries
    /\ leaderboard' = Append(leaderboard,
           [username |-> IF score.username = "" THEN Anonymous ELSE score.username,
            distance |-> score.distance, date |-> score.date, timestamp |-> now])
    /\ UNCHANGED <<now, sessions, starts, calls, sweep, probe, users, clients>>

NextBoard ==
    \/ Tick
    \/ \E id \in DocIds : StartInvoke(id)
    \/ \E id \in DocIds : StartAdd(id)
    \/ \E id \in DocIds : StartAddFails(id)
    \/ \E c \in CallIds, data \in FirstAttempts : SubmitInvoke(c, data)
    \/ \E c \in CallIds : SubmitGet(c)
    \/ \E c \in CallIds : SubmitGetFails(c)
    \/ \E c \in CallIds : SubmitCheckAge(c)
    \/ \E c \in CallIds : SubmitCheckScore(c)
    \/ \E c \in CallIds : SubmitAdd(c)
    \/ \E c \in CallIds : SubmitAddFails(c)
    \/ \E c \in CallIds : SubmitUpdate(c)
    \/ \E c \in CallIds : SubmitUpdateFails(c)
    \/ \E c \in CallIds : SubmitRespond(c)
    \/ \E score \in ClientScores : AddScoreToFirestore(score)
    \/ \E score \in LegacyScores : LegacyAddScoreToFirestore(score)

SpecBoard == Init /\ [][NextBoard]_vars


(***************************************************************************)
(* createUser, updateUserStats and purchaseBall of the firestore service:  *)
(* each reads the user document with getDoc and writes it with setDoc or   *)
(* updateDoc in a second request, from the browser, with no transaction.   *)
(***************************************************************************)
UserFound == "ok"
UsernameExists == "Username already exists"
UserNotFound == "User not found"
BallOwned == "Ball already owned"
NotEnoughCoins == "Not enough coins"
StoreError == "store error"

\* a call begins in the lowest free slot: the document id is the username
\* upper-cased, and the getDoc leaves
CanCall(k) ==
    /\ clients[k].pc = "idle"
    /\ \A j \in CallIds : j < k => clients[j].pc # "idle"

ClientCall(op, username, password, ball, amount) ==
    [IdleClient EXCEPT !.pc = "get", !.op = op, !.username = ToUpperCase(username),
                       !.password = password, !.ball = ball, !.amount = amount]

ClientEnds(k, pc, result, seen) ==
    clients' = [clients EXCEPT ![k] = [@ EXCEPT !.pc = pc, !.result = result, !.seen = seen]]

\* createUser, lines 245-248: username upper-cased, the getDoc leaves
CreateUserInvoke(k, username, password) ==
    /\ CanCall(k)
    /\ clients' = [clients EXCEPT ![k] = ClientCall("createUser", username, password, "", 0)]
    /\ UNCHANGED <<now, sessions, leaderboard, starts, calls, sweep, probe, users>>

\* createUser, lines 248-251: the getDoc is answered
CreateUserGet(k) ==
    /\ clients[k].pc = "get"
    /\ clients[k].op = "createUser"
    /\ LET doc == users[clients[k].username]
       IN  IF doc.exists
           THEN ClientEnds(k, "failed", UsernameExists, doc)
           ELSE ClientEnds(k, "write", "", doc)
    /\ UNCHANGED <<now, sessions, leaderboard, starts, calls, sweep, probe, users>>

\* createUser, lines 254-268: setDoc replaces whatever the document holds
CreateUserSet(k) ==
    /\ clients[k].pc = "write"
    /\ clients[k].op = "createUser"
    /\ users' = [users EXCEPT ![clients[k].username] =
                    NewUser(clients[k].password, Num(AvatarMin))]
    /\ ClientEnds(k, "done", UserFound, clients[k].seen)
    /\ UNCHANGED <<now, sessions, leaderboard, starts, calls, sweep, probe>>

\* updateUserStats, lines 341-342
UpdateUserStatsInvoke(k, username, coinsEarned) ==
    /\ CanCall(k)
    /\ \A u \in UserIds : users[u].exists => users[u].totalCoins + coinsEarned <= MaxCoins
    /\ clients' = [clients EXCEPT ![k] =
                      ClientCall("updateUserStats", username, "", "", coinsEarned)]
    /\ UNCHANGED <<now, sessions, leaderboard, starts, calls, sweep, probe, users>>

\* updateUserStats, lines 342-347: the getDoc is answered
UpdateUserStatsGet(k) ==
    /\ clients[k].pc = "get"
    /\ clients[k].op = "updateUserStats"
    /\ LET doc == users[clients[k].username]
       IN  IF doc.exists
           THEN ClientEnds(k, "write", "", doc)
           ELSE ClientEnds(k, "done", UserNotFound, doc)
    /\ UNCHANGED <<now, sessions, leaderboard, starts, calls, sweep, probe, users>>

\* updateUserStats, lines 352-355: the balance read plus the coins earned
UpdateUserStatsUpdate(k) ==
    /\ clients[k].pc = "write"
    /\ clients[k].op = "updateUserStats"
    /\ users' = [users EXCEPT ![clients[k].username] =
                    [@ EXCEPT !.totalCoins = clients[k].seen.totalCoins + clients[k].amount]]
    /\ ClientEnds(k, "done", UserFound, clients[k].seen)
    /\ UNCHANGED <<now, sessions, leaderboard, starts, calls, sweep, probe>>

\* purchaseBall, lines 386-387
PurchaseBallInvoke(k, username, ballId, price) ==
    /\ CanCall(k)
    /\ clients' = [clients EXCEPT ![k] =
                      ClientCall("purchaseBall", username, "", ballId, price)]
    /\ UNCHANGED <<now, sessions, leaderboard, starts, calls, sweep, probe, users>>

\* purchaseBall, lines 389-403: the getDoc is answered and the checks are
\* made on what it returned
PurchaseBallGet(k) ==
    /\ clients[k].pc = "get"
    /\ clients[k].op = "purchaseBall"
    /\ LET doc == users[clients[k].username]
       IN  IF ~doc.exists THEN ClientEnds(k, "failed", UserNotFound, doc)
           ELSE IF clients[k].ball \in doc.ownedBalls
                THEN ClientEnds(k, "failed", BallOwned, doc)
           ELSE IF doc.totalCoins < clients[k].amount
                THEN ClientEnds(k, "failed", NotEnoughCoins, doc)
           ELSE ClientEnds(k, "write", "", doc)
    /\ UNCHANGED <<now, sessions, leaderboard, starts, calls, sweep, probe, users>>

\* purchaseBall, lines 406-409: the balance read minus the price, arrayUnion
PurchaseBallUpdate(k) ==
    /\ clients[k].pc = "write"
    /\ clients[k].op = "purchaseBall"
    /\ users' = [users EXCEPT ![clients[k].username] =
                    [@ EXCEPT !.totalCoins = clients[k].seen.totalCoins - clients[k].amount,
                              !.ownedBalls = @ \cup {clients[k].ball}]]
    /\ ClientEnds(k, "done", UserFound, clients[k].seen)
    /\ UNCHANGED <<now, sessions, leaderboard, starts, calls, sweep, probe>>

\* the getDoc, setDoc or updateDoc rejects; the error is rethrown
ClientStoreFails(k) ==
    /\ clients[k].pc \in {"get", "write"}
    /\ ClientEnds(k, "failed", StoreError, clients[k].seen)
    /\ UNCHANGED <<now, sessions, leaderboard, starts, calls, sweep, probe, users>>

\* the promise settles and the call is over
ClientReturns(k) ==
    /\ clients[k].pc \in {"done", "failed"}
    /\ clients' = [clients EXCEPT ![k] = IdleClient]
    /\ UNCHANGED <<now, sessions, leaderboard, starts, calls, sweep, probe, users>>

NextUsers ==
    \/ \E k \in CallIds, u \in UsernameInputs, pw \in PasswordInputs :
          CreateUserInvoke(k, u, pw)
    \/ \E k \in CallIds : CreateUserGet(k)
    \/ \E k \in CallIds : CreateUserSet(k)
    \/ \E k \in CallIds, u \in UsernameInputs, coins \in CoinAwards :
          UpdateUserStatsInvoke(k, u, coins)
    \/ \E k \in CallIds : UpdateUserStatsGet(k)
    \/ \E k \in CallIds : UpdateUserStatsUpdate(k)
    \/ \E k \in CallIds, u \in UsernameInputs, ball \in Balls :
          PurchaseBallInvoke(k, u, ball, Price(ball))
    \/ \E k \in CallIds : PurchaseBallGet(k)
    \/ \E k \in CallIds : PurchaseBallUpdate(k)
    \/ \E k \in CallIds : ClientStoreFails(k)
    \/ \E k \in CallIds : ClientReturns(k)

SpecUsers == Init /\ [][NextUsers]_vars

\* the shop alone: an account that has played its way to MaxCoins coins
\* (two games in SpecUsers) and buys balls
InitShop ==
    /\ InitProtocol
    /\ probe = NoProbe
    /\ \E pw \in PasswordInputs :
          users = [u \in UserIds |->
                      [NewUser(pw, Num(AvatarMin)) EXCEPT !.totalCoins = MaxCoins]]

NextShop ==
    \/ \E k \in CallIds, u \in UsernameInputs, ball \in Balls :
          PurchaseBallInvoke(k, u, ball, Price(ball))
    \/ \E k \in CallIds : PurchaseBallGet(k)
    \/ \E k \in CallIds : PurchaseBallUpdate(k)
    \/ \E k \in CallIds : ClientStoreFails(k)
    \/ \E k \in CallIds : ClientReturns(k)

SpecShop == InitShop /\ [][NextShop]_vars


(***************************************************************************)
(* TokenCodec on its own: a token is issued for one (sessionId, timestamp) *)
(* pair, possibly edited on the way, and verified against a pair.          *)
(***************************************************************************)
protocolVars == <<now, sessions, leaderboard, starts, calls, sweep, users, clients>>

Edits == {"none", "first", "last", "drop", "grow"}
Edit(token, e) ==
    CASE e = "first" -> [token EXCEPT ![1] = "x"]
      [] e = "last" -> [token EXCEPT ![Len(token)] = "x"]
      [] e = "drop" -> SubSeq(token, 1, Len(token) - 1)
      [] e = "grow" -> Append(token, "x")
      [] OTHER -> token

InitCodec ==
    /\ InitProtocol
    /\ users = [u \in UserIds |-> NoUser]
    /\ \E s \in SessionIdInputs, t \in Times, s2 \in SessionIdInputs, t2 \in Times :
          probe = [NoProbe EXCEPT !.pc = "issue", !.sessionId = s, !.timestamp = t,
                                  !.issuedFor = <<s2, t2>>]

CodecIssue ==
    /\ probe.pc = "issue"
    /\ probe' = [probe EXCEPT !.pc = "carry",
                    !.token = generateToken(probe.issuedFor[1], probe.issuedFor[2])]
    /\ UNCHANGED protocolVars

CodecCarry(e) ==
    /\ probe.pc = "carry"
    /\ probe' = [probe EXCEPT !.pc = "verify", !.edit = e, !.token = Edit(probe.token, e)]
    /\ UNCHANGED protocolVars

CodecVerify ==
    /\ probe.pc = "verify"
    /\ probe' = [probe EXCEPT !.pc = "done",
                    !.verdict = validateToken(probe.sessionId, probe.timestamp, probe.token)]
    /\ UNCHANGED protocolVars

NextCodec ==
    \/ CodecIssue
    \/ \E e \in Edits : CodecCarry(e)
    \/ CodecVerify

SpecCodec == InitCodec /\ [][NextCodec]_vars


(***************************************************************************)
(* Vocabulary of the properties.                                           *)
(***************************************************************************)
Done(c) == calls[c].pc = "done"
Accepted(c) == Done(c) /\ calls[c].result = Success
Rejected(c) == Done(c) /\ calls[c].result # Success

\* the rejection kinds of the error taxonomy, and the errors thrown for each
Kind(result) ==
    CASE result \in {ErrMissing, ErrDistance, ErrAvatar, ErrInitials} -> "invalid input"
      [] result = ErrNotFound -> "not found"
      [] result = ErrUsed -> "already consumed"
      [] result = ErrToken -> "forged proof"
      [] result = ErrExpired -> "expired"
      [] result \in {ErrTooShort, ErrTooFar} -> "implausible"
      [] result = ErrInternal -> "internal"
      [] OTHER -> "accepted"

EntriesOf(id) == {i \in 1..Len(leaderboard) : leaderboard[i].sessionId = id}

\* a claim as the shape validation is specified: every field present,
\* distance a number >= 0, avatarId an integer in 1..9, initials a string of
\* exactly three uppercase letters
WellFormedClaim(data) ==
    /\ data.sessionId # ""
    /\ data.token # EmptyString
    /\ data.timestamp # 0
    /\ IsNumber(data.distance) /\ ~LessThan(data.distance, 0)
    /\ IsInteger(data.avatarId)
    /\ data.avatarId.int \in AvatarMin..AvatarMax
    /\ data.initials.kind = "string"
    /\ Len(data.initials.chars) = InitialsLen
    /\ \A i \in 1..Len(data.initials.chars) : data.initials.chars[i] \in UpperCase

\* the step of invocation c in which it leaves its current position
Leaves(c) == calls'[c].pc # calls[c].pc
RejectsAs(c, kind) == calls'[c].pc = "done" /\ Kind(calls'[c].result) = kind

(***************************************************************************)
(* C1.  Of the submissions of one session with identical valid payloads,   *)
(* however their store reads and writes interleave, exactly one is         *)
(* accepted and the leaderboard holds exactly one entry of that session:   *)
(* never two accepted, never two entries.                                  *)
(***************************************************************************)
C1_ExactlyOneAccepted ==
    /\ \A c1, c2 \in CallIds :
          (c1 # c2 /\ calls[c1].data = calls[c2].data) => ~(Accepted(c1) /\ Accepted(c2))
    /\ \A id \in DocIds : Cardinality(EntriesOf(id)) <= 1

(***************************************************************************)
(* C2.  The cleanup never deletes a session whose used flag is true: a     *)
(* session document that is used is still there after every step.          *)
(***************************************************************************)
C2_UsedSessionsKept ==
    [][\A id \in DocIds :
          (sessions[id].exists /\ sessions[id].used) => sessions'[id].exists]_vars

(***************************************************************************)
(* C3.  An accepted submission has distance <= ceil((now - issuedAt)/1000  *)
(* * 30) when it is accepted, and a submission that comes to the           *)
(* plausibility check with a distance above that bound is rejected as      *)
(* implausible and writes nothing.                                         *)
(***************************************************************************)
C3_AcceptedWithinBound ==
    /\ [](\A c \in CallIds :
            Accepted(c) =>
                AtMost(calls[c].data.distance, ExactBound(now - calls[c].clientTimestamp)))
    /\ [][\A c \in CallIds :
            (/\ calls[c].pc = "score"
             /\ Leaves(c)
             /\ GreaterThan(calls[c].data.distance,
                            ExactBound(now - calls[c].clientTimestamp)))
            => (RejectsAs(c, "implausible") /\ ~calls'[c].added
                /\ UNCHANGED <<sessions, leaderboard>>)]_vars

(***************************************************************************)
(* C4.  The leaderboard write and the setting of used are one step: no     *)
(* state has a leaderboard entry of a session that is stored unused.       *)
(***************************************************************************)
C4_EntryImpliesUsed ==
    \A i \in 1..Len(leaderboard) :
        Doc(leaderboard[i].sessionId).exists => Doc(leaderboard[i].sessionId).used

(***************************************************************************)
(* C5.  A submission that does not return success has written nothing: it  *)
(* has added no leaderboard entry (and it has updated no session, the      *)
(* update being what success follows).                                     *)
(***************************************************************************)
C5_RejectionWritesNothing ==
    \A c \in CallIds : Rejected(c) => ~calls[c].added

(***************************************************************************)
(* C6.  A submission reports the first failing check in the order shape,   *)
(* existence, single use, token binding, freshness, plausibility: a        *)
(* malformed claim is rejected as invalid input when it arrives; the       *)
(* session read rejects as not found, else already consumed, else forged   *)
(* proof; then the age check as expired; then the score check as           *)
(* implausible.                                                            *)
(***************************************************************************)
C6_FirstFailingCheckReported ==
    [][\A c \in CallIds :
        /\ (calls[c].pc = "idle" /\ Leaves(c) /\ ~WellFormedClaim(calls'[c].data))
              => RejectsAs(c, "invalid input")
        /\ SubmitGet(c) =>
              LET data == calls[c].data
                  doc == Doc(data.sessionId)
              IN  IF ~doc.exists THEN RejectsAs(c, "not found")
                  ELSE IF doc.used THEN RejectsAs(c, "already consumed")
                  ELSE IF data.token # generateToken(data.sessionId, doc.clientTimestamp)
                       THEN RejectsAs(c, "forged proof")
                       ELSE calls'[c].pc = "age"
        /\ (SubmitCheckAge(c) /\ now - calls[c].clientTimestamp > SESSION_EXPIRY_MS)
              => RejectsAs(c, "expired")
        /\ (/\ SubmitCheckScore(c)
            /\ \/ now - calls[c].clientTimestamp < MIN_GAME_DURATION_MS
               \/ GreaterThan(calls[c].data.distance,
                              maxPossibleScore(now - calls[c].clientTimestamp)))
              => RejectsAs(c, "implausible")]_vars

(***************************************************************************)
(* C7.  A submission on a session older than the 1 hour window is never    *)
(* accepted: once the stored issue time is more than the window behind the *)
(* clock, a submission that has not yet passed the freshness check never   *)
(* passes it, and one whose token was valid and whose session was unused   *)
(* (it came to the check) is rejected as expired.                          *)
(***************************************************************************)
TooOld(c) ==
    \/ /\ calls[c].pc = "get"
       /\ Doc(calls[c].data.sessionId).exists
       /\ now - Doc(calls[c].data.sessionId).clientTimestamp > SESSION_EXPIRY_MS
    \/ /\ calls[c].pc = "age"
       /\ now - calls[c].clientTimestamp > SESSION_EXPIRY_MS

C7_ExpiredNeverAccepted ==
    [][\A c \in CallIds :
        TooOld(c) =>
            /\ calls'[c].pc \in {"get", "age", "done"}
            /\ calls'[c].pc = "done" => calls'[c].result # Success
            /\ (calls[c].pc = "age" /\ Leaves(c)) => RejectsAs(c, "expired")
            /\ calls'[c].pc = "age" => now' - calls'[c].clientTimestamp > SESSION_EXPIRY_MS]_vars

C7_Witness ==
    \E c \in CallIds :
        /\ Done(c)
        /\ calls[c].result = ErrExpired
        /\ calls[c].data.token = generateToken(calls[c].data.sessionId, calls[c].clientTimestamp)
        /\ Doc(calls[c].data.sessionId).exists
        /\ ~Doc(calls[c].data.sessionId).used

(***************************************************************************)
(* C8.  A submission less than 1000 ms after the stored issue time is      *)
(* never accepted, whatever the distance: nothing is past the plausibility *)
(* check, let alone accepted, before the session is 1000 ms old, and a     *)
(* submission that reads a shorter duration at the check is rejected as    *)
(* implausible.                                                            *)
(***************************************************************************)
C8_TooShortNeverAccepted ==
    /\ [](\A c \in CallIds :
            (calls[c].pc \in {"add", "update"} \/ Accepted(c))
                => now - calls[c].clientTimestamp >= MIN_GAME_DURATION_MS)
    /\ [][\A c \in CallIds :
            (/\ calls[c].pc = "score"
             /\ Leaves(c)
             /\ now - calls[c].clientTimestamp < MIN_GAME_DURATION_MS)
            => RejectsAs(c, "implausible")]_vars

C8_Witness ==
    \E c \in CallIds :
        /\ Done(c)
        /\ calls[c].result = ErrTooShort
        /\ calls[c].data.distance = Num(0)
        /\ now - calls[c].clientTimestamp < MIN_GAME_DURATION_MS

(***************************************************************************)
(* C9.  validateToken(s, t, k) is true exactly when k is generateToken(s,  *)
(* t): a token issued for one (sessionId, timestamp) pair verifies for     *)
(* that pair and for no other, and a token with one character changed      *)
(* verifies for no pair.                                                   *)
(***************************************************************************)
C9_VerifyIffGenerated ==
    probe.pc = "done" =>
        /\ probe.verdict = "true"
              <=> probe.token = generateToken(probe.sessionId, probe.timestamp)
        /\ probe.verdict = "true"
              <=> (probe.issuedFor = <<probe.sessionId, probe.timestamp>>
                   /\ probe.edit = "none")
        /\ probe.edit \in {"first", "last"} => probe.verdict = "false"

C9_Witness ==
    /\ probe.pc = "done"
    /\ probe.verdict = "false"
    /\ probe.edit = "none"
    /\ probe.issuedFor[1] = probe.sessionId
    /\ probe.issuedFor[2] # probe.timestamp

(***************************************************************************)
(* C10.  Token verification never raises: a submission whose token is not  *)
(* the one of the session it names (malformed or of another length         *)
(* included) is rejected as forged proof, never as internal.               *)
(***************************************************************************)
C10_VerifyNeverRaises ==
    [][\A c \in CallIds :
        (/\ SubmitGet(c)
         /\ Doc(calls[c].data.sessionId).exists
         /\ ~Doc(calls[c].data.sessionId).used
         /\ calls[c].data.token
               # generateToken(calls[c].data.sessionId,
                               Doc(calls[c].data.sessionId).clientTimestamp))
        => RejectsAs(c, "forged proof")]_vars

(***************************************************************************)
(* C11.  Each rejection kind has a reason code of its own: the code of a   *)
(* rejection a caller receives is the code of no error of another kind, so *)
(* that implausible and invalid input are told apart by the code alone.    *)
(* Errors are the errors submitScore throws.                               *)
(***************************************************************************)
Errors ==
    {ErrMissing, ErrDistance, ErrAvatar, ErrInitials, ErrNotFound, ErrUsed, ErrToken,
     ErrExpired, ErrTooShort, ErrTooFar, ErrInternal}

C11_OneCodePerKind ==
    \A c \in CallIds :
        Rejected(c) =>
            \A e \in Errors :
                e.code = calls[c].result.code => Kind(e) = Kind(calls[c].result)

(***************************************************************************)
(* C12.  What submitScore returns and writes does not depend on the value  *)
(* of the timestamp field of the request, as long as there is one: the     *)
(* issue time the checks use is the one startGameSession stored, and every *)
(* step of a submission comes out as it would with any other value in the  *)
(* field (same answer, same leaderboard entry, issue time left as stored).  *)
(***************************************************************************)
Outcome(c, err, pc) ==
    /\ err = Success <=> calls'[c].pc = pc
    /\ err # Success => (calls'[c].pc = "done" /\ calls'[c].result = err)

C13_UsedMonotone ==
    [][\A id \in DocIds :
        /\ (~sessions[id].exists /\ sessions'[id].exists) => ~sessions'[id].used
        /\ (sessions[id].exists /\ sessions[id].used /\ sessions'[id].exists)
              => sessions'[id].used]_vars

C13_Witness ==
    \E id \in DocIds, c \in CallIds :
        /\ sessions[id].exists
        /\ sessions[id].used
        /\ calls[c].data.sessionId = id
        /\ Done(c)
        /\ calls[c].result = ErrUsed

(***************************************************************************)
(* C14.  A session record is written by at most one submission: the update *)
(* that sets used, finalScore and scoreSubmittedAt (lines 198-202) is      *)
(* never applied to a session that is already used, so nothing overwrites  *)
(* what the first successful submission wrote.                             *)
(***************************************************************************)
C14_SessionWrittenOnce ==
    [][\A c \in CallIds :
        (calls[c].pc = "update" /\ calls'[c].pc = "done" /\ calls'[c].result = Success)
            => ~Doc(calls[c].data.sessionId).used]_vars

(***************************************************************************)
(* C15.  A valid payload submitted again after it has been accepted is     *)
(* rejected as already consumed: whenever the session read of a repeat of  *)
(* an accepted submission is answered, the repeat is rejected with the     *)
(* already-consumed kind, however much later it comes.                     *)
(***************************************************************************)
C15_RepeatAlreadyConsumed ==
    [][\A c \in CallIds :
        (SubmitGet(c) /\ Success \in calls[c].priors)
            => RejectsAs(c, "already consumed")]_vars

(***************************************************************************)
(* C16.  A well-formed submission on an existing unused session, with the  *)
(* token of that session, handled between 1000 ms and 3600000 ms after the *)
(* stored issue time with a distance of at most ceil(elapsed/1000 * 30),   *)
(* is accepted when the store answers and the session is left alone: it    *)
(* passes every check it comes to (the boundaries elapsed = 1000, elapsed  *)
(* = 3600000 and distance = bound included), its entry is added and its    *)
(* update returns success.                                                 *)
(***************************************************************************)
C16_ValidAccepted ==
    [][\A c \in CallIds :
        /\ (calls[c].pc = "idle" /\ Leaves(c) /\ WellFormedClaim(calls'[c].data))
              => calls'[c].pc = "get"
        /\ (/\ SubmitGet(c)
            /\ Doc(calls[c].data.sessionId).exists
            /\ ~Doc(calls[c].data.sessionId).used
            /\ calls[c].data.token
                  = generateToken(calls[c].data.sessionId,
                                  Doc(calls[c].data.sessionId).clientTimestamp))
              => calls'[c].pc = "age"
        /\ (SubmitCheckAge(c) /\ now - calls[c].clientTimestamp <= SESSION_EXPIRY_MS)
              => calls'[c].pc = "score"
        /\ (/\ SubmitCheckScore(c)
            /\ WellFormedClaim(calls[c].data)
            /\ now - calls[c].clientTimestamp >= MIN_GAME_DURATION_MS
            /\ AtMost(calls[c].data.distance, ExactBound(now - calls[c].clientTimestamp)))
              => calls'[c].pc = "add"
        /\ SubmitAdd(c) => (calls'[c].pc = "update" /\ Len(leaderboard') = Len(leaderboard) + 1)
        /\ (SubmitUpdate(c) /\ Doc(calls[c].data.sessionId).exists)
              => (calls'[c].pc = "done" /\ calls'[c].result = Success)]_vars

\* accepted with the distance equal to the bound: 60 at 2000 ms
C16_Witness ==
    \E c \in CallIds :
        /\ Accepted(c)
        /\ now - calls[c].clientTimestamp = 2 * MsPerSecond
        /\ calls[c].data.distance = Num(ExactBound(2 * MsPerSecond))

\* accepted at the two ends of the time window
C16_WitnessEarliest ==
    \E c \in CallIds : Accepted(c) /\ now - calls[c].clientTimestamp = MIN_GAME_DURATION_MS

C16_WitnessLatest ==
    \E c \in CallIds : Accepted(c) /\ now - calls[c].clientTimestamp = SESSION_EXPIRY_MS

(***************************************************************************)
(* C17.  Every leaderboard entry is created by submitScore and never       *)
(* touched again: the only step of anything in the repository that changes *)
(* the leaderboard collection is the add of a submission that has passed   *)
(* every check, which appends its entry and leaves the entries already     *)
(* there as they are.                                                      *)
(***************************************************************************)
C17_OnlySubmitScoreAdds ==
    [][leaderboard' # leaderboard =>
          \E c \in CallIds :
              /\ calls[c].pc = "add"
              /\ calls'[c].pc = "update"
              /\ leaderboard' = Append(leaderboard, Entry(c))]_vars

(***************************************************************************)
(* C18.  An implausible rejection is terminal for the session: a request   *)
(* sent again after it has been rejected as implausible is never accepted, *)
(* however much later it is handled.                                       *)
(***************************************************************************)
C18_ImplausibleIsTerminal ==
    \A c \in CallIds :
        (\E r \in calls[c].priors : Kind(r) = "implausible") => ~Accepted(c)

(***************************************************************************)
(* C19.  Repeating a submission that returned the internal error is safe:  *)
(* the leaderboard never holds more than one entry of the session of a     *)
(* request that was sent again after an internal error.                    *)
(***************************************************************************)
C19_RetryAfterInternalSafe ==
    \A c \in CallIds :
        ErrInternal \in calls[c].priors =>
            Cardinality(EntriesOf(calls[c].data.sessionId)) <= 1

(***************************************************************************)
(* C20.  A session the sweep deletes gets no leaderboard entry from a      *)
(* submission running beside the sweep: no submission adds its entry at a  *)
(* moment when the session it names is no longer in the store.             *)
(***************************************************************************)
C20_NoEntryForDeletedSession ==
    [][\A c \in CallIds :
        (calls[c].pc = "add" /\ calls'[c].pc = "update")
            => Doc(calls[c].data.sessionId).exists]_vars

Deleted(id) == sessions[id].exists /\ ~sessions'[id].exists

C23_SweepSparesFreshSessions ==
    [][/\ \A id \in DocIds :
            Deleted(id) =>
                /\ sweep.pc = "commit"
                /\ (sweep.expiryTime + SESSION_EXPIRY_MS) - sessions[id].clientTimestamp
                      > SESSION_EXPIRY_MS
                /\ now - sessions[id].clientTimestamp > SESSION_EXPIRY_MS
       /\ \A c \in CallIds :
            (/\ SubmitGet(c)
             /\ calls[c].data.sessionId \in HandedOut
             /\ RejectsAs(c, "not found"))
            => now - starts[calls[c].data.sessionId].timestamp > SESSION_EXPIRY_MS]_vars

\* a session one millisecond past the window has been deleted, and a
\* submission on it answered not found
C23_Witness ==
    \E id \in HandedOut, c \in CallIds :
        /\ ~sessions[id].exists
        /\ now - starts[id].timestamp = SESSION_EXPIRY_MS + 1
        /\ Done(c)
        /\ calls[c].data.sessionId = id
        /\ calls[c].result = ErrNotFound

(***************************************************************************)
(* C24.  A sweep that runs without a store error removes every unused      *)
(* session older than its clock minus 1 hour: its query puts every such    *)
(* session of the store into the batch, and its commit deletes the whole   *)
(* batch, so that only a session created in between can remain.            *)
(***************************************************************************)
C24_SweepRemovesExpired ==
    [][/\ SweepQuery =>
            \A id \in DocIds :
                (/\ sessions[id].exists
                 /\ ~sessions[id].used
                 /\ sessions[id].clientTimestamp < sweep.expiryTime)
                => (sweep'.pc = "commit" /\ id \in sweep'.batch)
       /\ SweepCommit => \A id \in sweep.batch : ~sessions'[id].exists]_vars

\* an unused session just past the window, gone after the sweep
C24_Witness ==
    \E id \in HandedOut :
        /\ ~sessions[id].exists
        /\ sweep.pc = "idle"
        /\ leaderboard = <<>>
        /\ now - starts[id].timestamp = SESSION_EXPIRY_MS + 1

(***************************************************************************)
(* C25.  The sweep can be run again safely: when no session was created    *)
(* behind its query, a completed run leaves nothing its own selection      *)
(* would select again (a second run at the same clock deletes nothing      *)
(* more), and a run that fails, like every other step, deletes only        *)
(* sessions of a sweep's batch that the sweep's selection covers.          *)
(***************************************************************************)
C25_SweepIdempotent ==
    [][/\ (SweepCommit /\ Expired(sweep.expiryTime) \subseteq sweep.batch) =>
            \A id \in DocIds :
                sessions'[id].exists => ~(sessions'[id].clientTimestamp < sweep.expiryTime)
       /\ \A id \in DocIds :
            Deleted(id) =>
                (id \in sweep.batch /\ sessions[id].clientTimestamp < sweep.expiryTime)
       /\ (sweep.pc = "query" /\ sweep'.pc = "idle") => sessions' = sessions]_vars

\* a second run at the clock of a run that has deleted a session
C25_Witness ==
    \E id \in HandedOut :
        /\ ~sessions[id].exists
        /\ sweep.pc = "query"
        /\ sweep.expiryTime > starts[id].timestamp

(***************************************************************************)
(* C26.  An accepted submission has written exactly one leaderboard entry: *)
(* its add appends one entry whose distance is the claimed distance        *)
(* rounded down, whose initials are the three uppercase letters claimed,   *)
(* whose avatarId is the claimed integer in 1..9 and whose sessionId is    *)
(* the session submitted; no other step of the submission changes the      *)
(* leaderboard; and the update that makes it accepted sets used true and   *)
(* finalScore to the claimed distance on that session.                     *)
(***************************************************************************)
C26_AcceptedWritesItsEntry ==
    /\ [](\A c \in CallIds : Accepted(c) => calls[c].added)
    /\ [][\A c \in CallIds :
            LET data == calls[c].data
            IN  /\ (calls[c].pc = "add" /\ calls'[c].pc = "update") =>
                      /\ ~calls[c].added
                      /\ Len(leaderboard') = Len(leaderboard) + 1
                      /\ SubSeq(leaderboard', 1, Len(leaderboard)) = leaderboard
                      /\ LET e == leaderboard'[Len(leaderboard')]
                         IN  /\ e.distance = data.distance.int
                             /\ e.initials = data.initials.chars
                             /\ Len(e.initials) = InitialsLen
                             /\ \A i \in 1..Len(e.initials) : e.initials[i] \in UpperCase
                             /\ e.avatarId = data.avatarId
                             /\ IsInteger(e.avatarId)
                             /\ e.avatarId.int \in AvatarMin..AvatarMax
                             /\ e.sessionId = data.sessionId
                /\ (Leaves(c) /\ calls[c].pc # "add") =>
                      (leaderboard' = leaderboard \/ \E b \in CallIds \ {c} : SubmitAdd(b))
                /\ (calls[c].pc = "update" /\ calls'[c].pc = "done"
                                           /\ calls'[c].result = Success) =>
                      /\ sessions'[data.sessionId].exists
                      /\ sessions'[data.sessionId].used
                      /\ sessions'[data.sessionId].finalScore = data.distance]_vars

\* accepted with a fractional distance: 40.5 claimed, 40 on the leaderboard
C26_Witness ==
    \E c \in CallIds :
        /\ Accepted(c)
        /\ calls[c].data.distance = NumHalf(40)
        /\ leaderboard[Len(leaderboard)].sessionId = calls[c].data.sessionId
        /\ leaderboard[Len(leaderboard)].distance = 40
        /\ Doc(calls[c].data.sessionId).finalScore = NumHalf(40)

(***************************************************************************)
(* C28.  Every leaderboard entry written by submitScore has an integer     *)
(* distance between 0 and 108000, the most the rate bound allows within    *)
(* the 1 hour window, whatever the client claims and however long it       *)
(* waits.                                                                  *)
(***************************************************************************)
C28_ScoreCapped ==
    \A i \in 1..Len(leaderboard) :
        /\ leaderboard[i].distance \in Int
        /\ 0 <= leaderboard[i].distance
        /\ leaderboard[i].distance <= MaxScore

(***************************************************************************)
(* C27.  Every invocation returns: a startGameSession that has sent its    *)
(* write ends done or failed, a submitScore in progress ends with exactly  *)
(* one result (success or one of the errors of the handler), and a sweep   *)
(* in progress ends.  No invocation waits for another: the next step of    *)
(* each is enabled whatever the others are doing.                          *)
(***************************************************************************)
InProgress(c) == calls[c].pc \notin {"idle", "done"}

NeverWaits ==
    /\ \A id \in DocIds : starts[id].pc = "add" => ENABLED StartAdd(id)
    /\ \A c \in CallIds :
          /\ calls[c].pc = "get" => ENABLED SubmitGet(c)
          /\ calls[c].pc = "age" => ENABLED SubmitCheckAge(c)
          /\ calls[c].pc = "score" => ENABLED SubmitCheckScore(c)
          /\ calls[c].pc = "add" => ENABLED SubmitAdd(c)
          /\ calls[c].pc = "update" => ENABLED SubmitUpdate(c)
    /\ sweep.pc = "query" => ENABLED SweepQuery
    /\ sweep.pc = "commit" => ENABLED SweepCommit

OneResult ==
    \A c \in CallIds :
        /\ Done(c) => calls[c].result \in Errors \cup {Success}
        /\ InProgress(c) => calls[c].result = Pending

C27_EveryCallReturns ==
    /\ []NeverWaits
    /\ []OneResult
    /\ \A c \in CallIds : InProgress(c) ~> Done(c)
    /\ \A id \in DocIds : (starts[id].pc = "add") ~> (starts[id].pc \in {"done", "failed"})
    /\ (sweep.pc # "idle") ~> (sweep.pc = "idle")

\* two submissions of one session have both returned, one of them turned away
C27_Witness ==
    \E c1, c2 \in CallIds :
        /\ c1 # c2
        /\ Accepted(c1)
        /\ Rejected(c2)
        /\ calls[c1].data = calls[c2].data
        /\ starts[calls[c1].data.sessionId].pc = "done"
        /\ sweep.pc = "idle"

(***************************************************************************)
(* C29.  purchaseBall conserves coins: a purchase that finds the ball      *)
(* owned or the balance below the price fails and writes nothing, the      *)
(* balance is never negative, and the write of every successful purchase,  *)
(* however purchases interleave, lowers the stored balance by exactly the  *)
(* price of the ball it adds to ownedBalls (by nothing if it adds none).   *)
(***************************************************************************)
C29_PurchasesConserveCoins ==
    /\ [](\A u \in UserIds : users[u].exists => users[u].totalCoins >= 0)
    /\ [][\A k \in CallIds :
            LET u == clients[k].username
            IN  /\ (/\ PurchaseBallGet(k)
                    /\ users[u].exists
                    /\ \/ clients[k].ball \in users[u].ownedBalls
                       \/ users[u].totalCoins < clients[k].amount)
                      => (clients'[k].pc = "failed" /\ users' = users)
                /\ PurchaseBallUpdate(k) =>
                      users[u].totalCoins - users'[u].totalCoins
                          = (IF clients[k].ball \in users[u].ownedBalls
                             THEN 0 ELSE clients[k].amount)]_vars

(***************************************************************************)
(* C30.  Usernames are unique accounts: of the createUser calls for one    *)
(* upper-cased username at most one succeeds, and the write of a           *)
(* successful createUser never replaces the record of an account that      *)
(* already exists.                                                         *)
(***************************************************************************)
Created(k) == clients[k].op = "createUser" /\ clients[k].pc = "done"

C30_UsernamesUnique ==
    /\ [](\A k1, k2 \in CallIds :
            (k1 # k2 /\ clients[k1].username = clients[k2].username)
                => ~(Created(k1) /\ Created(k2)))
    /\ [][\A k \in CallIds :
            CreateUserSet(k) => ~users[clients[k].username].exists]_vars

\* the account the shop starts from is one the calls can produce
ShopAccountReached ==
    \E u \in UserIds :
        /\ users[u].exists
        /\ users[u].totalCoins = MaxCoins
        /\ users[u].ownedBalls = {DefaultBall}
        /\ \A k \in CallIds : clients[k].pc = "idle"

=============================================================================
